---- MODULE Spec2Model ----
(***************************************************************************)
(* Model of the recipe generator's server-side integration layer:          *)
(*   - saveOpenaiResponses, generateRecipe, generateImage(s) and           *)
(*     validateIngredient (the inference client and its response logger);  *)
(*   - the redirect callback of the auth configuration.                    *)
(* Every exported function is asynchronous; each of its awaits is a point  *)
(* where the call is suspended, so a call is a small state machine whose   *)
(* position is pc[c].  The hosted inference endpoints and the document     *)
(* store are the environment: they resolve or reject what is awaited.      *)
(***************************************************************************)
EXTENDS Integers, Sequences, FiniteSets, TLC

(* ------------------------------ bounds -------------------------------- *)
\* concurrent calls of the general specification
MaxCalls == 2
\* longest recipe list handed to generateImages in SpecImages
MaxRecipes == 3
\* longest generated text in SpecValidate, in lexical units
MaxTextLen == 5
\* longest path, in segments, of a url offered to the redirect callback
MaxPathLen == 2

Calls == 1..MaxCalls

(* ------------------------------ values -------------------------------- *)
UserIds == {"u1", "u2"}
IngredientNames == {"egg", "tofu"}
Urls == {"https://img/1", "https://img/2"}

\* JS null / undefined results and absent values, as tagged records so that
\* every value of a field can be compared with every other.
Null == [type |-> "null"]
NoResult == [type |-> "none"]
NoError == "none"
NoPrompt == [template |-> "none"]
NoResponse == [type |-> "none"]
NoArgs == [type |-> "none"]

\* Generated text is a sequence of lexical units: JSON whitespace, a
\* whitespace character that String.prototype.trim removes but the JSON
\* grammar does not accept (U+00A0, U+FEFF, ...), the two braces, the member
\* list of a validation object with isValid true or false, the literal null,
\* and any other character.
SP == " "
NBSP == "nbsp"
LBRACE == "{"
RBRACE == "}"
MEMBERS_T == "isValid:true,possibleVariations:[v]"
MEMBERS_F == "isValid:false,possibleVariations:[]"
NULL_LITERAL == "null"
JUNK == "x"
Chars == {SP, NBSP, LBRACE, RBRACE, MEMBERS_T, MEMBERS_F, NULL_LITERAL, JUNK}

SeqsUpTo(S, n) == UNION {[1..k -> S] : k \in 0..n}

(* ------------------------- String.prototype.trim ----------------------- *)
IsTrimWhiteSpace(ch) == ch \in {SP, NBSP}

RECURSIVE TrimStart(_)
TrimStart(s) ==
    IF s # <<>> /\ IsTrimWhiteSpace(Head(s)) THEN TrimStart(Tail(s)) ELSE s

RECURSIVE TrimEnd(_)
TrimEnd(s) ==
    IF s # <<>> /\ IsTrimWhiteSpace(s[Len(s)])
    THEN TrimEnd(SubSeq(s, 1, Len(s) - 1))
    ELSE s

Trim(s) == TrimEnd(TrimStart(s))

(* ------------------------------ JSON.parse ---------------------------- *)
\* A recursive-descent reading of the text: whitespace, a value, whitespace,
\* end of input, where a value is the literal null or '{', whitespace, an
\* optional member list, whitespace, '}'.  Anything else is a SyntaxError.
IsJsonWhiteSpace(ch) == ch = SP

RECURSIVE SkipWs(_, _)
SkipWs(s, i) ==
    IF i <= Len(s) /\ IsJsonWhiteSpace(s[i]) THEN SkipWs(s, i + 1) ELSE i

SyntaxError == [ok |-> FALSE, value |-> Null]

ObjectOf(members) ==
    IF members = MEMBERS_T
    THEN [type |-> "object", isValid |-> TRUE, possibleVariations |-> <<"v">>]
    ELSE IF members = MEMBERS_F
    THEN [type |-> "object", isValid |-> FALSE, possibleVariations |-> <<>>]
    ELSE [type |-> "object"]

JSONParse(s) ==
    LET i1 == SkipWs(s, 1)
    IN  IF i1 > Len(s) THEN SyntaxError
        ELSE IF s[i1] = NULL_LITERAL
        THEN IF SkipWs(s, i1 + 1) <= Len(s) THEN SyntaxError
             ELSE [ok |-> TRUE, value |-> Null]
        ELSE IF s[i1] # LBRACE THEN SyntaxError
        ELSE LET i2 == SkipWs(s, i1 + 1)
                 hasMembers == i2 <= Len(s) /\ s[i2] \in {MEMBERS_T, MEMBERS_F}
                 i3 == IF hasMembers THEN SkipWs(s, i2 + 1) ELSE i2
             IN  IF i3 > Len(s) \/ s[i3] # RBRACE THEN SyntaxError
                 ELSE IF SkipWs(s, i3 + 1) <= Len(s) THEN SyntaxError
                 ELSE [ok |-> TRUE,
                       value |-> ObjectOf(IF hasMembers THEN s[i2] ELSE "")]

(* ------------------------------ prompts ------------------------------- *)
\* A prompt is its template together with what is interpolated into it.
\* Array.prototype.join: the elements with the separator between neighbours.
RECURSIVE Join(_, _)
Join(xs, sep) ==
    IF Len(xs) = 0 THEN <<>>
    ELSE IF Len(xs) = 1 THEN <<xs[1]>>
    ELSE <<xs[1], sep>> \o Join(Tail(xs), sep)

getRecipeGenerationPrompt(ingredients, dietaryPreferences) ==
    [template |-> "recipeGeneration",
     ingredients |-> ingredients,
     preferences |-> IF Len(dietaryPreferences) # 0
                     THEN <<"and dietary preferences: ">> \o Join(dietaryPreferences, ",")
                     ELSE <<>>]

getImageGenerationPrompt(recipeName, ingredients) ==
    [template |-> "imageGeneration",
     recipeName |-> recipeName,
     allIngredients |->
         Join([i \in 1..Len(ingredients) |-> ingredients[i].name], ", ")]

getIngredientValidationPrompt(ingredientName) ==
    [template |-> "ingredientValidation", ingredientName |-> ingredientName]

(* ------------------------------- state -------------------------------- *)
VARIABLES
    kind,        \* kind[c]: which exported function call c is
    pc,          \* pc[c]: the await at which call c is suspended, or how it ended
    args,        \* args[c]: the arguments of call c
    prompt,      \* prompt[c]: the local const prompt of generateRecipe / validateIngredient
    hfRequests,  \* hfRequests[c]: text-generation requests call c has issued
    response,    \* response[c]: what the awaited inference call(s) resolved with
    requests,    \* requests[c]: the image promises of call c, in input order
    completed,   \* completed[c]: indices of requests[c] in the order they settled
    saveArgs,    \* saveArgs[c]: the {userId, prompt, response} handed to saveOpenaiResponses
    logWrites,   \* logWrites[c]: calls of saveOpenaiResponses made by call c
    logId,       \* logId[c]: what saveOpenaiResponses returned to call c
    result,      \* result[c]: the value call c returned
    error,       \* error[c]: the message of the Error call c raised
    db,          \* the aiGenerated collection, in insertion order
    redirect     \* the last redirect callback invocation and what it returned

vars == <<kind, pc, args, prompt, hfRequests, response, requests, completed,
          saveArgs, logWrites, logId, result, error, db, redirect>>

callVars == <<kind, pc, args, prompt, hfRequests, response, requests, completed,
              saveArgs, logWrites, logId, result, error, db>>

NoSaveArgs == [type |-> "none"]
NotSaved == [type |-> "none"]
Url(origin, path) == [origin |-> origin, path |-> path]
NoUrl == Url("", <<>>)
NoRedirect == [url |-> NoUrl, baseUrl |-> NoUrl, returned |-> NoUrl]

ObjectId(n) == [type |-> "ObjectId", n |-> n]
Str(v) == [type |-> "string", value |-> v]

Init ==
    /\ kind = [c \in Calls |-> "none"]
    /\ pc = [c \in Calls |-> "idle"]
    /\ args = [c \in Calls |-> NoArgs]
    /\ prompt = [c \in Calls |-> NoPrompt]
    /\ hfRequests = [c \in Calls |-> 0]
    /\ response = [c \in Calls |-> NoResponse]
    /\ requests = [c \in Calls |-> <<>>]
    /\ completed = [c \in Calls |-> <<>>]
    /\ saveArgs = [c \in Calls |-> NoSaveArgs]
    /\ logWrites = [c \in Calls |-> 0]
    /\ logId = [c \in Calls |-> NotSaved]
    /\ result = [c \in Calls |-> NoResult]
    /\ error = [c \in Calls |-> NoError]
    /\ db = <<>>
    /\ redirect = NoRedirect

(* ------------------------- saveOpenaiResponses ------------------------ *)
\* The caller reaches `await saveOpenaiResponses({userId, prompt, response})`:
\* the function starts and suspends at `await connectDB()`.
CallSaveOpenaiResponses(c, a) ==
    /\ saveArgs' = [saveArgs EXCEPT ![c] = a]
    /\ logWrites' = [logWrites EXCEPT ![c] = @ + 1]
    /\ pc' = [pc EXCEPT ![c] = "awaitConnect"]

\* generateRecipe, after the log write returned _id (line 108).
ResumeGenerateRecipe(c, _id) ==
    /\ result' = [result EXCEPT ![c] =
                     [type |-> "recipeResponse",
                      recipes |-> response[c].generated_text,
                      openaiPromptId |-> IF _id # Null THEN _id
                                         ELSE Str("null-prompt-id")]]
    /\ pc' = [pc EXCEPT ![c] = "returned"]
    /\ error' = error

\* images.map((imageResponse, idx) => ({imgLink: imageResponse.data[0].url,
\* name: recipes[idx].name})): data[0] of an empty list is undefined, and
\* reading .url of it throws a TypeError.
MapThrows(images) == \E idx \in 1..Len(images) : Len(images[idx].data) = 0

ImagesWithNames(images, recipes) ==
    [idx \in 1..Len(images) |->
        [imgLink |-> images[idx].data[1].url, name |-> recipes[idx].name]]

\* generateImages, after the log write returned (lines 163-174).
ResumeGenerateImages(c) ==
    IF MapThrows(response[c].images)
    THEN /\ error' = [error EXCEPT ![c] = "Failed to generate image"]
         /\ pc' = [pc EXCEPT ![c] = "raised"]
         /\ result' = result
    ELSE /\ result' = [result EXCEPT ![c] =
                          [type |-> "images",
                           list |-> ImagesWithNames(response[c].images, args[c].recipes)]]
         /\ pc' = [pc EXCEPT ![c] = "returned"]
         /\ error' = error

\* Mutant: the text is parsed as received, without trimming.
ParseValidationUntrimmed(validationText) == JSONParse(validationText)

\* const trimmedText = validationText.trim(); JSON.parse(trimmedText)
ParseValidation(validationText) == JSONParse(Trim(validationText))

\* validateIngredient, after the log write returned (line 221).
ResumeValidateIngredient(c) ==
    /\ result' = [result EXCEPT ![c] =
                     ParseValidation(response[c].generated_text).value]
    /\ pc' = [pc EXCEPT ![c] = "returned"]
    /\ error' = error

\* saveOpenaiResponses returned _id to the call that awaited it.
Resume(c, _id) ==
    /\ logId' = [logId EXCEPT ![c] = _id]
    /\ CASE kind[c] = "generateRecipe" -> ResumeGenerateRecipe(c, _id)
         [] kind[c] = "generateImages" -> ResumeGenerateImages(c)
         [] kind[c] = "validateIngredient" -> ResumeValidateIngredient(c)

\* `await connectDB()` resolved: saveOpenaiResponses suspends at
\* `await aiGenerated.create(...)`.
ConnectDBResolved(c) ==
    /\ pc[c] = "awaitConnect"
    /\ pc' = [pc EXCEPT ![c] = "awaitCreate"]
    /\ UNCHANGED <<kind, args, prompt, hfRequests, response, requests, completed,
                   saveArgs, logWrites, logId, result, error, db, redirect>>

\* Mutant: the insert is keyed on {userId, prompt, response}: a document
\* equal to a stored one is not inserted again.
InsertDeduplicated(collection, doc) ==
    IF \E k \in 1..Len(collection) :
          /\ collection[k].userId = doc.userId
          /\ collection[k].prompt = doc.prompt
          /\ collection[k].response = doc.response
    THEN collection
    ELSE Append(collection,
                [_id |-> ObjectId(Len(collection) + 1), userId |-> doc.userId,
                 prompt |-> doc.prompt, response |-> doc.response])

\* The document store inserts one new document and answers with its _id.
Insert(collection, doc) ==
    Append(collection,
           [_id |-> ObjectId(Len(collection) + 1), userId |-> doc.userId,
            prompt |-> doc.prompt, response |-> doc.response])

\* `await aiGenerated.create(...)` resolved: return _id.
CreateResolved(c) ==
    /\ pc[c] = "awaitCreate"
    /\ db' = Insert(db, saveArgs[c])
    /\ Resume(c, db'[Len(db')]._id)
    /\ UNCHANGED <<kind, args, prompt, hfRequests, response, requests, completed,
                   saveArgs, logWrites, redirect>>

\* Mutant: the catch block of saveOpenaiResponses rethrows, so the failure
\* reaches the catch block around the caller's await.
SaveRejectedRethrown(c) ==
    /\ pc[c] \in {"awaitConnect", "awaitCreate"}
    /\ logId' = [logId EXCEPT ![c] = Null]
    /\ CASE kind[c] = "generateRecipe" ->
              /\ error' = [error EXCEPT ![c] = "Failed to generate recipe"]
              /\ pc' = [pc EXCEPT ![c] = "raised"]
              /\ result' = result
         [] kind[c] = "generateImages" ->
              /\ error' = [error EXCEPT ![c] = "Failed to generate image"]
              /\ pc' = [pc EXCEPT ![c] = "raised"]
              /\ result' = result
         [] kind[c] = "validateIngredient" ->
              /\ result' = [result EXCEPT ![c] = Null]
              /\ pc' = [pc EXCEPT ![c] = "returned"]
              /\ error' = error
    /\ UNCHANGED <<kind, args, prompt, hfRequests, response, requests, completed,
                   saveArgs, logWrites, db, redirect>>

\* connectDB or create rejected: catch, console.error, return null.
SaveRejected(c) ==
    /\ pc[c] \in {"awaitConnect", "awaitCreate"}
    /\ Resume(c, Null)
    /\ UNCHANGED <<kind, args, prompt, hfRequests, response, requests, completed,
                   saveArgs, logWrites, db, redirect>>

(* ---------------------------- generateRecipe -------------------------- *)
\* The call starts: the prompt is built and hf.textGeneration is awaited.
GenerateRecipe(c, ingredients, dietaryPreferences, userId) ==
    /\ pc[c] = "idle"
    /\ kind' = [kind EXCEPT ![c] = "generateRecipe"]
    /\ args' = [args EXCEPT ![c] =
                   [ingredients |-> ingredients,
                    dietaryPreferences |-> dietaryPreferences, userId |-> userId]]
    /\ prompt' = [prompt EXCEPT ![c] =
                     getRecipeGenerationPrompt(ingredients, dietaryPreferences)]
    /\ hfRequests' = [hfRequests EXCEPT ![c] = @ + 1]
    /\ pc' = [pc EXCEPT ![c] = "awaitText"]
    /\ UNCHANGED <<response, requests, completed, saveArgs, logWrites, logId,
                   result, error, db, redirect>>

\* Mutant: the generated text is returned without being logged.
GenerateRecipeResolvedUnlogged(c, generated_text) ==
    /\ kind[c] = "generateRecipe" /\ pc[c] = "awaitText"
    /\ response' = [response EXCEPT ![c] = [generated_text |-> generated_text]]
    /\ result' = [result EXCEPT ![c] =
                     [type |-> "recipeResponse", recipes |-> generated_text,
                      openaiPromptId |-> Str("null-prompt-id")]]
    /\ pc' = [pc EXCEPT ![c] = "returned"]
    /\ UNCHANGED <<kind, args, prompt, hfRequests, requests, completed, saveArgs,
                   logWrites, logId, error, db, redirect>>

\* hf.textGeneration resolved: the exchange is handed to saveOpenaiResponses.
GenerateRecipeResolved(c, generated_text) ==
    /\ kind[c] = "generateRecipe" /\ pc[c] = "awaitText"
    /\ response' = [response EXCEPT ![c] = [generated_text |-> generated_text]]
    /\ CallSaveOpenaiResponses(c, [userId |-> args[c].userId, prompt |-> prompt[c],
                                   response |-> response'[c]])
    /\ UNCHANGED <<kind, args, prompt, hfRequests, requests, completed, logId,
                   result, error, db, redirect>>

\* Mutant: a failed text-generation request is retried once before the
\* call gives up.
GenerateRecipeRejectedRetried(c) ==
    /\ kind[c] = "generateRecipe" /\ pc[c] = "awaitText"
    /\ IF hfRequests[c] < 2
       THEN /\ hfRequests' = [hfRequests EXCEPT ![c] = @ + 1]
            /\ UNCHANGED <<error, pc>>
       ELSE /\ error' = [error EXCEPT ![c] = "Failed to generate recipe"]
            /\ pc' = [pc EXCEPT ![c] = "raised"]
            /\ UNCHANGED hfRequests
    /\ UNCHANGED <<kind, args, prompt, response, requests, completed,
                   saveArgs, logWrites, logId, result, db, redirect>>

\* hf.textGeneration rejected: catch, console.error, throw the generic Error.
GenerateRecipeRejected(c) ==
    /\ kind[c] = "generateRecipe" /\ pc[c] = "awaitText"
    /\ error' = [error EXCEPT ![c] = "Failed to generate recipe"]
    /\ pc' = [pc EXCEPT ![c] = "raised"]
    /\ UNCHANGED <<kind, args, prompt, hfRequests, response, requests, completed,
                   saveArgs, logWrites, logId, result, db, redirect>>

(* ---------------------- generateImage / generateImages ----------------- *)
\* openai.images.generate returns a promise at once; transport and API
\* failures arrive as a rejection of that promise, so nothing is thrown
\* synchronously for the catch of lines 146-148 to handle.
generateImage(imagePrompt) ==
    [body |-> [model |-> "dall-e-3", prompt |-> imagePrompt, n |-> 1,
               size |-> "1024x1024"],
     status |-> "pending",
     response |-> NoResponse]

\* recipes.map(recipe => generateImage(getImageGenerationPrompt(...))): every
\* request is issued, in input order, before anything is awaited.
ImagePromises(recipes) ==
    [idx \in 1..Len(recipes) |->
        generateImage(getImageGenerationPrompt(recipes[idx].name,
                                               recipes[idx].ingredients))]

\* Mutant: Promise.race in place of Promise.all: settled with the first
\* promise that settles.
PromiseRace(promises) ==
    IF \E i \in 1..Len(promises) : promises[i].status = "rejected" THEN "rejected"
    ELSE IF Len(promises) = 0
            \/ \E i \in 1..Len(promises) : promises[i].status = "fulfilled"
    THEN "fulfilled"
    ELSE "pending"

\* Promise.all: rejected as soon as one promise is rejected, fulfilled once
\* every promise is fulfilled (at once for an empty list), pending otherwise.
PromiseAll(promises) ==
    IF \E i \in 1..Len(promises) : promises[i].status = "rejected" THEN "rejected"
    ELSE IF \A i \in 1..Len(promises) : promises[i].status = "fulfilled"
    THEN "fulfilled"
    ELSE "pending"

ImageLogPrompt(recipes) ==
    [template |-> "imageBatch",
     names |-> Join([i \in 1..Len(recipes) |-> recipes[i].name], " ,")]

\* Mutant: the responses are collected in the order the requests completed.
AfterAllFulfilledInCompletionOrder(c, recipes, userId, ps) ==
    /\ response' = [response EXCEPT ![c] =
                       [images |-> [i \in 1..Len(ps) |-> ps[completed'[c][i]].response]]]
    /\ CallSaveOpenaiResponses(c, [userId |-> userId,
                                   prompt |-> ImageLogPrompt(recipes),
                                   response |-> response'[c]])
    /\ UNCHANGED <<error, result>>

\* Promise.all fulfilled with the responses in input order: the batch is
\* handed to saveOpenaiResponses (lines 155-161).
AfterAllFulfilled(c, recipes, userId, ps) ==
    /\ response' = [response EXCEPT ![c] =
                       [images |-> [i \in 1..Len(ps) |-> ps[i].response]]]
    /\ CallSaveOpenaiResponses(c, [userId |-> userId,
                                   prompt |-> ImageLogPrompt(recipes),
                                   response |-> response'[c]])
    /\ UNCHANGED <<error, result>>

\* Mutant: the catch block swallows the failure and returns an empty list.
CatchImageErrorSwallowed(c) ==
    /\ result' = [result EXCEPT ![c] = [type |-> "images", list |-> <<>>]]
    /\ pc' = [pc EXCEPT ![c] = "returned"]
    /\ UNCHANGED <<response, saveArgs, logWrites, error>>

\* Mutant: the catch block records the failed batch in the log before it
\* rethrows.
CatchImageErrorLogged(c) ==
    /\ response' = [response EXCEPT ![c] = [images |-> <<>>]]
    /\ CallSaveOpenaiResponses(c, [userId |-> args[c].userId,
                                   prompt |-> ImageLogPrompt(args[c].recipes),
                                   response |-> response'[c]])
    /\ UNCHANGED <<error, result>>

\* Promise.all rejected: catch, console.error, throw the generic Error
\* (lines 171-174).
CatchImageError(c) ==
    /\ error' = [error EXCEPT ![c] = "Failed to generate image"]
    /\ pc' = [pc EXCEPT ![c] = "raised"]
    /\ UNCHANGED <<response, saveArgs, logWrites, result>>

\* `await Promise.all(imagePromises)` as the promises stand in ps: the call
\* goes on to the log write, to the catch block, or stays suspended.
AwaitAll(c, recipes, userId, ps) ==
    CASE PromiseAll(ps) = "fulfilled" -> AfterAllFulfilled(c, recipes, userId, ps)
      [] PromiseAll(ps) = "rejected" -> CatchImageError(c)
      [] PromiseAll(ps) = "pending" ->
            /\ pc' = [pc EXCEPT ![c] = "awaitAll"]
            /\ UNCHANGED <<response, saveArgs, logWrites, error, result>>

\* The call starts: all requests are issued, then Promise.all is awaited.
GenerateImages(c, recipes, userId) ==
    /\ pc[c] = "idle"
    /\ kind' = [kind EXCEPT ![c] = "generateImages"]
    /\ args' = [args EXCEPT ![c] = [recipes |-> recipes, userId |-> userId]]
    /\ requests' = [requests EXCEPT ![c] = ImagePromises(recipes)]
    /\ UNCHANGED completed
    /\ AwaitAll(c, recipes, userId, requests'[c])
    /\ UNCHANGED <<prompt, hfRequests, logId, db, redirect>>

\* A settled image promise wakes the call only while it awaits Promise.all;
\* there is no cancellation, so promises settle after the call ended too.
ImageSettled(c, i, settled) ==
    /\ kind[c] = "generateImages"
    /\ i \in 1..Len(requests[c])
    /\ requests[c][i].status = "pending"
    /\ requests' = [requests EXCEPT ![c][i] = settled]
    /\ completed' = [completed EXCEPT ![c] = Append(@, i)]
    /\ IF pc[c] = "awaitAll"
       THEN AwaitAll(c, args[c].recipes, args[c].userId, requests'[c])
       ELSE UNCHANGED <<response, saveArgs, logWrites, error, result, pc>>
    /\ UNCHANGED <<kind, args, prompt, hfRequests, logId, db, redirect>>

\* The image endpoint answered request i of call c with {data}.
ImageResolved(c, i, data) ==
    ImageSettled(c, i, [requests[c][i] EXCEPT !.status = "fulfilled",
                                               !.response = [data |-> data]])

\* Request i of call c failed (network, API error).
ImageRejected(c, i) ==
    ImageSettled(c, i, [requests[c][i] EXCEPT !.status = "rejected"])

(* -------------------------- validateIngredient ------------------------ *)
\* The call starts: the prompt is built and hf.textGeneration is awaited.
ValidateIngredient(c, ingredientName, userId) ==
    /\ pc[c] = "idle"
    /\ kind' = [kind EXCEPT ![c] = "validateIngredient"]
    /\ args' = [args EXCEPT ![c] =
                   [ingredientName |-> ingredientName, userId |-> userId]]
    /\ prompt' = [prompt EXCEPT ![c] = getIngredientValidationPrompt(ingredientName)]
    /\ hfRequests' = [hfRequests EXCEPT ![c] = @ + 1]
    /\ pc' = [pc EXCEPT ![c] = "awaitText"]
    /\ UNCHANGED <<response, requests, completed, saveArgs, logWrites, logId,
                   result, error, db, redirect>>

\* hf.textGeneration resolved (lines 213-229): an empty text is falsy and
\* yields null; a text JSON.parse rejects yields null from the inner catch;
\* otherwise the exchange is handed to saveOpenaiResponses.
ValidateIngredientResolved(c, generated_text) ==
    /\ kind[c] = "validateIngredient" /\ pc[c] = "awaitText"
    /\ response' = [response EXCEPT ![c] = [generated_text |-> generated_text]]
    /\ IF Len(generated_text) # 0 /\ ParseValidation(generated_text).ok
       THEN /\ CallSaveOpenaiResponses(c, [userId |-> args[c].userId,
                                           prompt |-> prompt[c],
                                           response |-> response'[c]])
            /\ result' = result
       ELSE /\ result' = [result EXCEPT ![c] = Null]
            /\ pc' = [pc EXCEPT ![c] = "returned"]
            /\ UNCHANGED <<saveArgs, logWrites>>
    /\ UNCHANGED <<kind, args, prompt, hfRequests, requests, completed, logId,
                   error, db, redirect>>

\* hf.textGeneration rejected: catch, console.error, throw the generic Error.
ValidateIngredientRejected(c) ==
    /\ kind[c] = "validateIngredient" /\ pc[c] = "awaitText"
    /\ error' = [error EXCEPT ![c] = "Failed to validate ingredient"]
    /\ pc' = [pc EXCEPT ![c] = "raised"]
    /\ UNCHANGED <<kind, args, prompt, hfRequests, response, requests, completed,
                   saveArgs, logWrites, logId, result, db, redirect>>

(* --------------------------- auth: redirect --------------------------- *)
\* Mutant: the framework's default redirect callback: relative urls and urls
\* on the site's origin are followed, anything else goes to the site root.
RedirectCallbackDefault(url, baseUrl) ==
    IF url.origin = "" THEN Url(baseUrl.origin, url.path)
    ELSE IF url.origin = baseUrl.origin THEN url
    ELSE baseUrl

\* async redirect({ url, baseUrl }) { return baseUrl; }
RedirectCallback(url, baseUrl) == baseUrl

Redirect(url, baseUrl) ==
    /\ redirect' = [url |-> url, baseUrl |-> baseUrl,
                    returned |-> RedirectCallback(url, baseUrl)]
    /\ UNCHANGED callVars

(* --------------------------- inputs and Next --------------------------- *)
Ingredient(name, quantity) == [name |-> name, quantity |-> quantity]
Recipe(name, ingredients) == [name |-> name, ingredients |-> ingredients]

RecipeBook ==
    {Recipe("omelette", <<Ingredient("egg", "2")>>),
     Recipe("scramble", <<Ingredient("egg", "1"), Ingredient("tofu", "100g")>>)}

\* The inputs of the general specification, which interleaves calls: a few
\* argument tuples and generated texts of each kind.
SampleRecipeArgs ==
    {<<<<Ingredient("egg", "2")>>, <<"vegan", "halal">>, "u1">>,
     << <<>>, <<>>, "u2">>}
SampleImagesArgs ==
    {<< <<>>, "u1">>,
     <<<<Recipe("omelette", <<Ingredient("egg", "2")>>)>>, "u2">>}
SampleValidateArgs == {<<"egg", "u1">>, <<"tofu", "u2">>}
SampleTexts ==
    {<<>>, <<JUNK>>, <<NULL_LITERAL>>, <<NBSP, LBRACE, MEMBERS_T, RBRACE, SP>>}
ImageData == {<<>>} \cup {<<[url |-> u]>> : u \in Urls}

Origins == {"https://site", "https://preview.site"}
RequestedOrigins == Origins \cup {"", "https://evil"}
PathSegments == {"auth", "signin", "recipes", "x"}

\* the awaits of saveOpenaiResponses, for any call
SaveNext(c) ==
    \/ ConnectDBResolved(c)
    \/ CreateResolved(c)
    \/ SaveRejected(c)

RecipeNext(c) ==
    \/ \E a \in SampleRecipeArgs : GenerateRecipe(c, a[1], a[2], a[3])
    \/ \E text \in SampleTexts : GenerateRecipeResolved(c, text)
    \/ GenerateRecipeRejected(c)

ImagesNext(c, calls, maxLen) ==
    \/ \E a \in calls : GenerateImages(c, a[1], a[2])
    \/ \E i \in 1..maxLen, data \in ImageData : ImageResolved(c, i, data)
    \/ \E i \in 1..maxLen : ImageRejected(c, i)

ValidateNext(c, calls, texts) ==
    \/ \E a \in calls : ValidateIngredient(c, a[1], a[2])
    \/ /\ pc[c] = "awaitText"
       /\ \E text \in texts : ValidateIngredientResolved(c, text)
    \/ ValidateIngredientRejected(c)

\* Any interleaving of calls of the three exported functions.
Next ==
    \E c \in Calls :
        \/ RecipeNext(c)
        \/ ImagesNext(c, SampleImagesArgs, 1)
        \/ ValidateNext(c, SampleValidateArgs, SampleTexts)
        \/ SaveNext(c)

Spec == Init /\ [][Next]_vars

\* One generateImages call over every recipe list up to MaxRecipes.
NextImages ==
    \/ ImagesNext(1, SeqsUpTo(RecipeBook, MaxRecipes) \X UserIds, MaxRecipes)
    \/ SaveNext(1)

SpecImages == Init /\ [][NextImages]_vars

\* One validateIngredient call over every generated text up to MaxTextLen.
NextValidate ==
    \/ ValidateNext(1, IngredientNames \X UserIds, SeqsUpTo(Chars, MaxTextLen))
    \/ SaveNext(1)

SpecValidate == Init /\ [][NextValidate]_vars

\* The redirect callback over relative, same-origin and foreign urls.
NextAuth ==
    \E origin \in RequestedOrigins, path \in SeqsUpTo(PathSegments, MaxPathLen),
       base \in Origins :
        Redirect(Url(origin, path), Url(base, <<>>))

SpecAuth == Init /\ [][NextAuth]_vars

(* ------------------------------- claims ------------------------------- *)
Done(c) == pc[c] \in {"returned", "raised"}
IsImagesCall(c) == kind[c] = "generateImages"
IsRecipeCall(c) == kind[c] = "generateRecipe"
IsValidateCall(c) == kind[c] = "validateIngredient"
SaveReturned(c) == logId[c] # NotSaved
Inserted(c) == logId[c] \notin {NotSaved, Null}
Pending(c) == {i \in 1..Len(requests[c]) : requests[c][i].status = "pending"}
Rejected(c) == {i \in 1..Len(requests[c]) : requests[c][i].status = "rejected"}
Fulfilled(c) == {i \in 1..Len(requests[c]) : requests[c][i].status = "fulfilled"}
EmptyData(c) == {i \in Fulfilled(c) : Len(requests[c][i].response.data) = 0}
AllSucceeded(c) ==
    /\ Fulfilled(c) = 1..Len(requests[c])
    /\ EmptyData(c) = {}
RecordsOf(c) == {k \in 1..Len(db) : db[k]._id = logId[c]}

\* C1: a generateImages call over N recipes has issued exactly N image
\* requests, request i built from recipes[i], from the moment it first awaits;
\* and once all N are fulfilled with a non-empty data list the call does not
\* raise and what it returns is N {imgLink, name} pairs, pair i carrying the
\* name of recipes[i] and the url of the response to request i, whatever the
\* order in which the requests completed.
C1_FanOutAndInputOrder ==
    \A c \in Calls : IsImagesCall(c) =>
        LET recipes == args[c].recipes
            N == Len(recipes)
        IN  /\ Len(requests[c]) = N
            /\ \A i \in 1..N :
                   requests[c][i].body.prompt.recipeName = recipes[i].name
            /\ AllSucceeded(c) =>
                   /\ pc[c] # "raised"
                   /\ pc[c] = "returned" =>
                          /\ result[c].type = "images"
                          /\ Len(result[c].list) = N
                          /\ \A i \in 1..N :
                                 /\ result[c].list[i].name = recipes[i].name
                                 /\ result[c].list[i].imgLink =
                                        requests[c][i].response.data[1].url

C1_Witness ==
    /\ IsImagesCall(1) /\ pc[1] = "returned"
    /\ Len(args[1].recipes) = 3
    /\ completed[1] = <<3, 1, 2>>
    /\ args[1].recipes[1].name # args[1].recipes[2].name
    /\ result[1].list[1].imgLink # result[1].list[2].imgLink

\* C2: as soon as one image request of a generateImages call is rejected, the
\* call has raised 'Failed to generate image' and has returned nothing, also
\* when other requests of the batch succeeded.
C2_OneFailureRejectsBatch ==
    \A c \in Calls : (IsImagesCall(c) /\ Rejected(c) # {}) =>
        /\ pc[c] = "raised"
        /\ error[c] = "Failed to generate image"
        /\ result[c] = NoResult

C2_Witness ==
    /\ IsImagesCall(1) /\ pc[1] = "raised"
    /\ Cardinality(Rejected(1)) = 1
    /\ Cardinality(Fulfilled(1) \ EmptyData(1)) = 2

\* C8 as claimed: while an image request of a generateImages call is still
\* pending, the call has neither returned nor raised, whatever happened to the
\* other requests of the batch.
C8_PendingRequestStallsAlways ==
    \A c \in Calls : (IsImagesCall(c) /\ Pending(c) # {}) => ~Done(c)

\* C8 as amended: while an image request of a generateImages call is still
\* pending, the call is suspended at Promise.all (it has neither returned nor
\* raised) as long as no request of the batch has been rejected; once one is
\* rejected the call has raised, pending requests or not.
C8_PendingRequestStallsUnlessRejected ==
    \A c \in Calls : (IsImagesCall(c) /\ Pending(c) # {}) =>
        IF Rejected(c) = {}
        THEN pc[c] = "awaitAll"
        ELSE pc[c] = "raised" /\ error[c] = "Failed to generate image"

C8_Witness ==
    /\ IsImagesCall(1) /\ pc[1] = "awaitAll"
    /\ Pending(1) = {2}
    /\ EmptyData(1) = {1}
    /\ Fulfilled(1) = {1, 3}

\* C10 as claimed: a generateImages call that raised has attempted no log
\* write and has appended no record to the log collection.
C10_RaisedCallLoggedNothing ==
    \A c \in Calls : (IsImagesCall(c) /\ pc[c] = "raised") =>
        /\ logWrites[c] = 0
        /\ RecordsOf(c) = {}

\* C10 as amended: a generateImages call attempts at most one log write, and
\* only after all N image requests were fulfilled; a call that raised because
\* a request was rejected has attempted none and appended no record; a call
\* that raised because a fulfilled response has an empty data list attempted
\* its log write before raising, and appended one record unless that write
\* failed.
C10_LogWriteOnlyAfterAllFulfilled ==
    \A c \in Calls : IsImagesCall(c) =>
        /\ logWrites[c] <= 1
        /\ logWrites[c] = 1 => Fulfilled(c) = 1..Len(requests[c])
        /\ pc[c] = "raised" =>
               IF Rejected(c) # {}
               THEN logWrites[c] = 0 /\ logId[c] = NotSaved /\ RecordsOf(c) = {}
               ELSE /\ EmptyData(c) # {}
                    /\ logWrites[c] = 1
                    /\ Cardinality(RecordsOf(c)) = IF logId[c] = Null THEN 0 ELSE 1

C10_Witness ==
    /\ IsImagesCall(1) /\ pc[1] = "raised"
    /\ Rejected(1) = {}
    /\ Len(db) = 1 /\ db[1]._id = logId[1]
    /\ db[1].response = response[1]

\* C3: once the log write of a call has returned, whether the call returned
\* or raised and the primary result it returned are determined by the
\* inference responses alone, the same whether the write failed or succeeded;
\* the one difference is generateRecipe's openaiPromptId, which is the stored
\* record's id after a successful write and 'null-prompt-id' after a failed
\* one, and so never null.
C3_LogFailureNeverChangesResult ==
    \A c \in Calls : SaveReturned(c) =>
        CASE IsRecipeCall(c) ->
               /\ pc[c] = "returned"
               /\ result[c].recipes = response[c].generated_text
               /\ result[c].openaiPromptId =
                      IF Inserted(c) THEN logId[c] ELSE Str("null-prompt-id")
               /\ result[c].openaiPromptId # Null
          [] IsImagesCall(c) ->
               IF EmptyData(c) = {}
               THEN /\ pc[c] = "returned"
                    /\ result[c].list =
                           [i \in 1..Len(requests[c]) |->
                               [imgLink |-> requests[c][i].response.data[1].url,
                                name |-> args[c].recipes[i].name]]
               ELSE /\ pc[c] = "raised"
                    /\ result[c] = NoResult
          [] IsValidateCall(c) ->
               /\ pc[c] = "returned"
               /\ result[c] = JSONParse(Trim(response[c].generated_text)).value

C3_Witness ==
    /\ IsRecipeCall(1) /\ IsRecipeCall(2)
    /\ args[1] = args[2] /\ response[1] = response[2]
    /\ logId[1] = Null /\ Inserted(2)
    /\ pc[1] = "returned" /\ pc[2] = "returned"
    /\ result[1].recipes = result[2].recipes
    /\ result[1].openaiPromptId = Str("null-prompt-id")
    /\ result[2].openaiPromptId = db[1]._id

\* C5: a generateRecipe call issues exactly one text-generation request; when
\* that request fails the call has raised 'Failed to generate recipe', has
\* returned no value and has attempted no log write.
C5_RecipeFailureRaisesWithoutRetry ==
    \A c \in Calls : IsRecipeCall(c) =>
        /\ hfRequests[c] = 1
        /\ (response[c] = NoResponse /\ pc[c] # "awaitText") => pc[c] = "raised"
        /\ pc[c] = "raised" =>
               /\ error[c] = "Failed to generate recipe"
               /\ result[c] = NoResult
               /\ logWrites[c] = 0
               /\ logId[c] = NotSaved

C5_Witness ==
    /\ IsRecipeCall(1) /\ pc[1] = "raised"
    /\ IsRecipeCall(2) /\ pc[2] = "returned" /\ args[1] = args[2]
    /\ Len(db) = 1

\* The JSON texts of the lexical alphabet, stated on the text itself: only
\* braces, member lists, the literal null and JSON whitespace, and without
\* the whitespace either 'null', '{}' or '{' members '}'.
NotSp(ch) == ch # SP
HasValidationShape(t) ==
    \E m \in {MEMBERS_T, MEMBERS_F} : SelectSeq(t, NotSp) = <<LBRACE, m, RBRACE>>
IsJsonText(t) ==
    /\ \A i \in 1..Len(t) :
           t[i] \in {SP, LBRACE, RBRACE, MEMBERS_T, MEMBERS_F, NULL_LITERAL}
    /\ \/ SelectSeq(t, NotSp) = <<NULL_LITERAL>>
       \/ SelectSeq(t, NotSp) = <<LBRACE, RBRACE>>
       \/ HasValidationShape(t)
\* validateIngredient's null without a parse: empty text, or not JSON once trimmed
Unparsed(text) == Len(text) = 0 \/ ~IsJsonText(Trim(text))

\* C6 as claimed: every call that returned to its caller without raising has
\* attempted exactly one log write before it returned, a validateIngredient
\* call that returned null included.
C6_EveryReturnedCallLoggedOnce ==
    \A c \in Calls : pc[c] = "returned" => logWrites[c] = 1

\* C6 as amended: no call attempts more than one log write; a generateRecipe
\* or generateImages call that returned has attempted exactly one, and so has
\* a validateIngredient call that returned what JSON.parse produced (the JSON
\* value null included); a validateIngredient call that returned null because
\* the generated text was empty or not JSON once trimmed has attempted none.
C6_ReturnedCallLoggedOnceUnlessUnparsed ==
    \A c \in Calls :
        /\ logWrites[c] <= 1
        /\ pc[c] = "returned" =>
               IF IsValidateCall(c) /\ Unparsed(response[c].generated_text)
               THEN logWrites[c] = 0 /\ result[c] = Null /\ ~SaveReturned(c)
               ELSE logWrites[c] = 1 /\ SaveReturned(c)

C6_Witness ==
    /\ IsValidateCall(1) /\ pc[1] = "returned" /\ result[1] = Null
    /\ IsValidateCall(2) /\ pc[2] = "returned" /\ result[2] = Null
    /\ logWrites[1] = 0 /\ response[1].generated_text = <<JUNK>>
    /\ logWrites[2] = 1 /\ response[2].generated_text = <<NULL_LITERAL>>

\* C9: the log collection is append-only under every interleaving of calls:
\* a step leaves the records it found in place and unchanged and adds at most
\* one, exactly when a log write of some call succeeds; ids are unique, and
\* nothing is deduplicated: the collection holds one record per successful
\* log write, carrying the {userId, prompt, response} of that write, equal to
\* an earlier record's or not.
C9_OneRecordPerWrite ==
    /\ Len(db) = Cardinality({c \in Calls : Inserted(c)})
    /\ \A k1, k2 \in 1..Len(db) : db[k1]._id = db[k2]._id => k1 = k2
    /\ \A c \in Calls : Inserted(c) =>
           \E k \in 1..Len(db) :
               /\ db[k]._id = logId[c]
               /\ db[k].userId = saveArgs[c].userId
               /\ db[k].prompt = saveArgs[c].prompt
               /\ db[k].response = saveArgs[c].response

\* A step keeps every record in place and appends one exactly when the log
\* write of some call succeeds.
C9_Step ==
    /\ Len(db') \in {Len(db), Len(db) + 1}
    /\ SubSeq(db', 1, Len(db)) = db
    /\ Len(db') = Len(db) + 1 <=>
           \E c \in Calls : ~SaveReturned(c) /\ logId'[c] \notin {NotSaved, Null}

\* C9: in every state the collection holds one record per successful log
\* write, and every step is an append of at most one record.
C9_AppendOnly == [](C9_OneRecordPerWrite) /\ [][C9_Step]_vars

C9_Witness ==
    /\ Len(db) = 2
    /\ db[1]._id # db[2]._id
    /\ db[1].userId = db[2].userId
    /\ db[1].prompt = db[2].prompt
    /\ db[1].response = db[2].response
    /\ args[1] = args[2]

\* C4: a validateIngredient call whose text-generation request succeeded has
\* not raised; what it returns is null if the generated text is empty or its
\* trimmed form is not JSON, the parsed value otherwise, and that value is an
\* {isValid, possibleVariations} object when the trimmed text is JSON of that
\* shape.
C4_ValidateReturnsNullOrParsed ==
    \A c \in Calls : (IsValidateCall(c) /\ response[c] # NoResponse) =>
        LET text == response[c].generated_text
            trimmedText == Trim(text)
        IN  /\ pc[c] # "raised"
            /\ pc[c] = "returned" =>
                   IF Unparsed(text) \/ SelectSeq(trimmedText, NotSp) = <<NULL_LITERAL>>
                   THEN result[c] = Null
                   ELSE /\ result[c].type = "object"
                        /\ HasValidationShape(trimmedText) =>
                               /\ result[c].isValid =
                                      (MEMBERS_T \in {trimmedText[i] : i \in 1..Len(trimmedText)})
                               /\ result[c].possibleVariations \in {<<>>, <<"v">>}

C4_Witness ==
    /\ IsValidateCall(1) /\ pc[1] = "returned"
    /\ response[1].generated_text = <<NBSP, LBRACE, SP, MEMBERS_F, RBRACE>>
    /\ result[1].type = "object" /\ result[1].isValid = FALSE
    /\ logId[1] = Null

\* C7: whatever url is requested, relative, on the site's origin or on
\* another origin, the redirect callback returns baseUrl, the site root.
C7_RedirectAlwaysSiteRoot ==
    /\ redirect.returned = redirect.baseUrl
    /\ redirect.returned.path = <<>>

C7_Witness ==
    /\ redirect.url.origin = "https://evil"
    /\ redirect.url.path = <<"auth", "signin">>
    /\ redirect.returned = Url("https://site", <<>>)

====
